---- MODULE Spec2Model ----
(***************************************************************************)
(* Model of the video player screen (expo-video variant): tap              *)
(* disambiguation, relative seeks, overlay auto-hide timers, the position  *)
(* poll and the draggable seekbar.                                         *)
(*                                                                         *)
(* Numbers.  Date.now() readings and timer delays are integers (ms).       *)
(* Player times, durations and seekbar fractions are JavaScript numbers;   *)
(* they are modelled exactly as pairs <<n, d>>: a rational n/d in lowest   *)
(* terms with d > 0, Infinity = <<1, 0>>, -Infinity = <<-1, 0>>, or        *)
(* NaN = <<0, 0>> (also standing for undefined, which every arithmetic use *)
(* in the code turns into NaN).                                            *)
(***************************************************************************)
EXTENDS Integers, Sequences, FiniteSets, TLC

\* ---------------------------------------------------------------- constants
DOUBLE_TAP_DELAY == 300
PLAY_PAUSE_OVERLAY_DURATION == 2500
SEEK_INDICATOR_DURATION == 1000
SEEK_SECONDS == 10
AV_SEEK_MILLIS == 10000

\* ------------------------------------------------------------------- bounds
\* Number of taps on the video area in one run.
MaxTaps == 4
\* Number of times the clock is advanced in one run.
MaxAdvances == 5
\* Duration (s) of the stream once its metadata is loaded.
MaxDuration == 25
\* Amounts (ms) by which the clock advances between events, besides advancing
\* to the instant a pending timeout becomes due.
Steps == {1, 299}
\* A timeout's callback runs at most this many ms after it became due.
MaxLate == 2
\* Number of notifications the WebView screen asks for in one run.
MaxRequests == 3
\* Number of notification responses (taps on a notification) in one run.
MaxResponses == 1
MaxSeconds == 125
\* Amount (s) by which playback advances between events.
PlayStep == 5

\* --------------------------------------------------------- JavaScript numbers
Null == -1
NaN == <<0, 0>>
\* The JS value undefined, kept apart from every number.
Undefined == <<0, -1>>

Abs(i) == IF i < 0 THEN -i ELSE i

RECURSIVE GCD(_, _)
GCD(a, b) == IF b = 0 THEN a ELSE GCD(b, a % b)

\* n/d for d >= 0, in lowest terms; n/0 is an infinity, or NaN when n = 0.
Rat(n, d) ==
    IF d = 0 THEN (IF n > 0 THEN <<1, 0>> ELSE IF n < 0 THEN <<-1, 0>> ELSE <<0, 0>>)
    ELSE LET g == GCD(Abs(n), d) IN <<n \div g, d \div g>>
Num(i) == <<i, 1>>
Zero == Num(0)
One == Num(1)

IsNaN(a) == a = NaN
\* a <= b and a < b, for numbers other than NaN.
RLe(a, b) == IF a[2] = 0 /\ b[2] = 0 THEN a[1] <= b[1]
             ELSE a[1] * b[2] <= b[1] * a[2]
RLt(a, b) == IF a[2] = 0 /\ b[2] = 0 THEN a[1] < b[1]
             ELSE a[1] * b[2] < b[1] * a[2]

JsAdd(a, b) == IF IsNaN(a) \/ IsNaN(b) THEN NaN
               ELSE Rat(a[1] * b[2] + b[1] * a[2], a[2] * b[2])
JsSub(a, b) == IF IsNaN(a) \/ IsNaN(b) THEN NaN
               ELSE Rat(a[1] * b[2] - b[1] * a[2], a[2] * b[2])
JsMul(a, b) == IF IsNaN(a) \/ IsNaN(b) THEN NaN
               ELSE Rat(a[1] * b[1], a[2] * b[2])
JsDiv(a, b) == IF IsNaN(a) \/ IsNaN(b) THEN NaN
               ELSE IF b[1] < 0 THEN Rat(-(a[1] * b[2]), a[2] * (-b[1]))
               ELSE Rat(a[1] * b[2], a[2] * b[1])
\* Math.min / Math.max: NaN if either argument is NaN.
MathMin(a, b) == IF IsNaN(a) \/ IsNaN(b) THEN NaN ELSE IF RLe(a, b) THEN a ELSE b
MathMax(a, b) == IF IsNaN(a) \/ IsNaN(b) THEN NaN ELSE IF RLe(a, b) THEN b ELSE a
\* v || 0: NaN, undefined and 0 are falsy.
OrZero(v) == IF IsNaN(v) \/ v = Zero THEN Zero ELSE v
\* v > 0: false for NaN.
Positive(v) == ~IsNaN(v) /\ RLt(Zero, v)
\* a value read as a condition: null and 0 are falsy.
Truthy(v) == v # Null /\ v # 0

\* ------------------------------------------------------------ environment
\* screenData.width: the window width in px (portrait, the short dimension).
ScreenWidth == 350
\* locationX values of taps on the video area: just left of the middle, the
\* middle, and just right of it.
TapXs == {ScreenWidth \div 2 - 1, ScreenWidth \div 2, ScreenWidth \div 2 + 1}
\* moderateScale(size) of react-native-size-matters (guideline width 350, factor 0.5).
ModerateScale(size) ==
    JsAdd(Num(size),
          JsMul(JsSub(JsMul(Rat(ScreenWidth, 350), Num(size)), Num(size)), Rat(1, 2)))
seekbarPadding == ModerateScale(16)
seekbarWidth == JsSub(Num(ScreenWidth), JsMul(seekbarPadding, Num(2)))

VARIABLES
    now,                  \* Date.now()
    advances,             \* how often the clock was advanced
    tappedNow,            \* whether a tap has been handled at this Date.now()
    lastTapRef,           \* lastTapRef.current: Null or the Date.now() of a tap
    tapTimers,            \* pending setTimeout callbacks of handleVideoTap, each
                          \* named by the `now` its closure captured
    overlayTimer,         \* Null, or the time the pending overlay timeout was set
    seekIndicatorTimer,   \* Null, or the time the pending indicator timeout was set
    player,               \* the expo-video player object
    isMuted, isPlaying, currentTime, duration,
    showPlayPauseOverlay, seekbarValue, isDragging,
    showSeekIndicator, seekDirection, seekbarPosition,
    open,                 \* history: the taps (by their Date.now()) that can still
                          \* be classified, with what each met and got so far
    tally,                \* history: how the other taps ended
    firstGap,             \* history: <<time of the first tap, Null>> until the second
                          \* tap, then <<Null, ms between the first two taps>>
    overlayTriggeredAt,   \* history: while the overlay shows, the time of the
                          \* latest handleSingleTap, else Null
    indicatorTriggeredAt, \* history: while the indicator shows, the time of the
                          \* latest handleDoubleTap, else Null
    commands,             \* history: the playback commands applied to the player,
                          \* in order, each <<Date.now() of the tap it came
                          \* from, "toggle" or "seek">>
    tapX,                 \* history: locationX of the latest tap on the video
                          \* area, Null before the first
    touch,                \* history: <<pageX, geometry>> of the latest touch on the
                          \* seekbar whose position was measured, else <<>>
    op,                   \* history: the handler that ran last
    wrote                 \* history: the values that handler assigned to
                          \* player.currentTime, in order

\* The WebView screen and the navigation stack.
VARIABLES
    webMounted,           \* the WebView screen is mounted, its notification
                          \* response listener subscribed
    loading, snackbarVisible,
    snackbarMessage,      \* Null for '', else the delay (s) the message names
    alert,                \* the latest Alert shown, "none" before the first
    route,                \* the screen on top of the stack
    requests,             \* the requests passed to scheduleNotificationAsync
    inFlight,             \* indices of the requests not yet resolved or rejected
    accepted,             \* indices of the requests the scheduler accepted
    responses,            \* number of notification responses received
    navigations,          \* number of navigate('VideoPlayer') calls the listener made
    lastResponse,         \* data.screen of the latest notification response
    webOp                 \* history: the WebView screen handler that ran last

\* The expo-av variant of the video player screen.
VARIABLES
    avPlayer,             \* the Video component's playback: positionMillis,
                          \* isPlaying, isLoaded
    status,               \* the status state: the latest playback status
                          \* passed to onPlaybackStatusUpdate ({} at first)
    avRequested,          \* history: the positions passed to setPositionAsync
                          \* by the handler that ran last
    avOp                  \* history: the handler that ran last

\* The time labels of the video screen.
VARIABLES
    formatArg,            \* history: the argument of the latest formatTime call
    formatted             \* history: the string that call returned (<<>>
                          \* before any call)

timeVars == <<now, advances, tappedNow>>
tapVars == <<lastTapRef, tapTimers>>
overlayVars == <<showPlayPauseOverlay, overlayTimer, overlayTriggeredAt>>
indicatorVars == <<showSeekIndicator, seekDirection, seekIndicatorTimer,
                   indicatorTriggeredAt>>
seekbarVars == <<seekbarValue, seekbarPosition, isDragging, touch>>
histVars == <<open, tally, firstGap, tapX, commands>>
webVars == <<webMounted, loading, snackbarVisible, snackbarMessage, alert,
             route, requests, inFlight, accepted, responses, navigations,
             lastResponse, webOp>>
avVars == <<avPlayer, status, avRequested, avOp>>
textVars == <<formatArg, formatted>>
videoVars == <<timeVars, tapVars, overlayVars, indicatorVars, seekbarVars,
               histVars, player, isMuted, isPlaying, currentTime, duration,
               op, wrote>>
vars == <<now, advances, tappedNow, lastTapRef, tapTimers, overlayTimer, seekIndicatorTimer,
          player, isMuted, isPlaying, currentTime, duration,
          showPlayPauseOverlay, seekbarValue, isDragging,
          showSeekIndicator, seekDirection, seekbarPosition,
          open, tally, firstGap, overlayTriggeredAt, indicatorTriggeredAt,
          commands, tapX, touch, op, wrote, webVars, avVars, textVars>>

\* What the player reports as its duration before the metadata is loaded.
UnknownDurations == {NaN, Zero}

\* The screen after its first render and mount effects: state at its useState
\* defaults, player.muted = isMuted, player.play() called, setIsPlaying(true).
Init ==
    /\ now = 1
    /\ advances = 0
    /\ tappedNow = FALSE
    /\ lastTapRef = Null
    /\ tapTimers = {}
    /\ overlayTimer = Null
    /\ seekIndicatorTimer = Null
    /\ \E d \in UnknownDurations :
          player = [currentTime |-> Zero, duration |-> d,
                    playing |-> TRUE, muted |-> FALSE]
    /\ isMuted = FALSE
    /\ isPlaying = TRUE
    /\ currentTime = Zero
    /\ duration = Zero
    /\ showPlayPauseOverlay = FALSE
    /\ seekbarValue = Zero
    /\ isDragging = FALSE
    /\ showSeekIndicator = FALSE
    /\ seekDirection = "null"
    /\ seekbarPosition = Zero
    /\ open = <<>>
    /\ tally = [taps |-> 0, none |-> 0, single |-> 0, double |-> 0,
                both |-> 0, twice |-> 0, missed |-> 0]
    /\ firstGap = <<Null, Null>>
    /\ overlayTriggeredAt = Null
    /\ indicatorTriggeredAt = Null
    /\ commands = <<>>
    /\ tapX = Null
    /\ touch = <<>>
    /\ op = "mount"
    /\ wrote = <<>>
    /\ webMounted = TRUE
    /\ loading = TRUE
    /\ snackbarVisible = FALSE
    /\ snackbarMessage = Null
    /\ alert = "none"
    /\ route = "WebView"
    /\ requests = <<>>
    /\ inFlight = {}
    /\ accepted = {}
    /\ responses = 0
    /\ navigations = 0
    /\ lastResponse = "none"
    /\ webOp = "mount"
    /\ avPlayer = [positionMillis |-> Zero, isPlaying |-> FALSE, isLoaded |-> FALSE]
    /\ status = [positionMillis |-> NaN, durationMillis |-> NaN, isPlaying |-> FALSE]
    /\ avRequested = <<>>
    /\ avOp = "mount"
    /\ formatArg = Undefined
    /\ formatted = <<>>

\* ------------------------------------------------------- video controls
\* togglePlayPause: player.pause() when player.playing, else player.play().
\* What togglePlayPause tests: if (player.playing).
ToggleDecision_state(p, isPlayingState) == isPlayingState
ToggleDecision(p, isPlayingState) == p.playing

PlayerAfterToggle_play(p) == [p EXCEPT !.playing = TRUE]
PlayerAfterToggle(p) == [p EXCEPT !.playing = ~ToggleDecision(p, isPlaying)]

\* toggleMute: newMutedState = !isMuted.
MutedAfterToggle_on(muted) == TRUE
MutedAfterToggle(muted) == ~muted

\* seekForward: Math.min(player.currentTime + 10, player.duration).
SeekForwardPos(p) == MathMin(JsAdd(p.currentTime, Num(SEEK_SECONDS)), p.duration)

\* seekBackward: Math.max(player.currentTime - 10, 0).
SeekBackwardPos(p) == MathMax(JsSub(p.currentTime, Num(SEEK_SECONDS)), Zero)

\* handleDoubleTap: locationX < videoWidth / 2.
IsLeftHalf_inclusive(x) == 2 * x <= ScreenWidth
IsLeftHalf(x) == 2 * x < ScreenWidth

\* handleVideoTap: lastTapRef.current && (now - lastTapRef.current < DOUBLE_TAP_DELAY).
IsDoubleTap(last, t) == Truthy(last) /\ t - last < DOUBLE_TAP_DELAY

\* The timeout callback of the tap handled at t: lastTapRef.current === now.
IsStillPending_always(last, t) == TRUE
IsStillPending(last, t) == last = t

\* handleVideoTap, double-tap branch: lastTapRef.current = null.
LastTapAfterDouble_kept == lastTapRef
LastTapAfterDouble == Null

\* A timeout set at time `setAt` with delay `delay` may run now: setTimeout runs
\* its callback no earlier than the delay, and possibly later.
Due(setAt, delay) == now >= setAt + delay

\* ---------------------------------------------------------------- history
\* A tap that found lastTapRef.current = met (Null: nothing pending).
NewTap(met) ==
    [sincePending |-> IF met = Null THEN Null ELSE now - met,
     single |-> 0, double |-> 0]

\* A tap can still be classified while its timeout is pending or lastTapRef
\* holds it.
IsOpen(t, last, timers) == t \in timers \/ t = last

Count(S, P(_)) == Cardinality({t \in S : P(t)})

\* The history after a step that left the taps `o` with lastTapRef = last and
\* the pending timeouts `timers`: the taps no longer open are tallied.
Closing(o, last, timers) ==
    LET gone == {t \in DOMAIN o : ~IsOpen(t, last, timers)}
        IsNone(t) == o[t].single = 0 /\ o[t].double = 0
        IsSingle(t) == o[t].single = 1 /\ o[t].double = 0
        IsDouble(t) == o[t].single = 0 /\ o[t].double = 1
        IsBoth(t) == o[t].single > 0 /\ o[t].double > 0
        IsTwice(t) == o[t].single > 1 \/ o[t].double > 1
        IsMissed(t) == /\ o[t].sincePending # Null
                       /\ o[t].sincePending < DOUBLE_TAP_DELAY
                       /\ o[t].double = 0
    IN  [open |-> [t \in (DOMAIN o) \ gone |-> o[t]],
         tally |-> [taps |-> tally.taps,
                    none |-> tally.none + Count(gone, IsNone),
                    single |-> tally.single + Count(gone, IsSingle),
                    double |-> tally.double + Count(gone, IsDouble),
                    both |-> tally.both + Count(gone, IsBoth),
                    twice |-> tally.twice + Count(gone, IsTwice),
                    missed |-> tally.missed + Count(gone, IsMissed)]]

\* firstGap after a tap at the present time.
GapAfterTap ==
    IF tally.taps = 0 THEN <<now, Null>>
    ELSE IF tally.taps = 1 THEN <<Null, now - firstGap[1]>>
    ELSE firstGap

\* ------------------------------------------------------------- the clock
\* The instants at which the pending timeouts become due.
DueTimes ==
    {t + DOUBLE_TAP_DELAY : t \in tapTimers}
    \cup (IF overlayTimer = Null THEN {}
          ELSE {overlayTimer + PLAY_PAUSE_OVERLAY_DURATION})
    \cup (IF seekIndicatorTimer = Null THEN {}
          ELSE {seekIndicatorTimer + SEEK_INDICATOR_DURATION})

\* The amounts of time that may pass next.
TimeSteps == Steps \cup {D - now : D \in {E \in DueTimes : E > now}}

\* d ms pass: by one of the Steps, or up to the instant a timeout becomes due.
Advance(d) ==
    /\ advances < MaxAdvances
    /\ d \in TimeSteps
    /\ \A D \in DueTimes : now + d <= D + MaxLate
    /\ now' = now + d
    /\ advances' = advances + 1
    /\ tappedNow' = FALSE
    /\ UNCHANGED <<webVars, avVars, textVars>>
    /\ UNCHANGED <<tapVars, overlayVars, indicatorVars, seekbarVars, histVars,
                   player, isMuted, isPlaying, currentTime, duration, op, wrote>>

\* ------------------------------------------------------ touch handlers
\* handleVideoTap(event) with event.nativeEvent.locationX = x.  Successive taps
\* read distinct Date.now() values.
handleVideoTap(x) ==
    /\ tally.taps < MaxTaps
    /\ ~tappedNow
    /\ tappedNow' = TRUE
    /\ firstGap' = GapAfterTap
    /\ tapX' = x
    /\ IF IsDoubleTap(lastTapRef, now)
       THEN \* handleDoubleTap(event); lastTapRef.current = null
            LET pos == IF IsLeftHalf(x) THEN SeekBackwardPos(player)
                                        ELSE SeekForwardPos(player)
                o == [open EXCEPT ![lastTapRef].double = @ + 1]
                     @@ (now :> [NewTap(lastTapRef) EXCEPT !.double = 1])
                h == Closing(o, LastTapAfterDouble, tapTimers)
            IN  /\ player' = [player EXCEPT !.currentTime = pos]
                /\ currentTime' = pos
                /\ seekDirection' = IF IsLeftHalf(x) THEN "backward" ELSE "forward"
                /\ showSeekIndicator' = TRUE
                \* effect [showSeekIndicator]: runs only when the value changed
                /\ seekIndicatorTimer' =
                       IF showSeekIndicator THEN seekIndicatorTimer ELSE now
                /\ lastTapRef' = LastTapAfterDouble
                /\ tapTimers' = tapTimers
                /\ open' = h.open
                /\ tally' = [h.tally EXCEPT !.taps = @ + 1]
                /\ indicatorTriggeredAt' = now
                /\ commands' = Append(commands, <<now, "seek">>)
                /\ op' = "handleDoubleTap"
                /\ wrote' = <<pos>>
       ELSE \* wait to see whether this is a double tap
            LET o == open @@ (now :> NewTap(lastTapRef))
                h == Closing(o, now, tapTimers \cup {now})
            IN  /\ lastTapRef' = now
                /\ tapTimers' = tapTimers \cup {now}
                /\ open' = h.open
                /\ tally' = [h.tally EXCEPT !.taps = @ + 1]
                /\ op' = "handleVideoTap"
                /\ wrote' = <<>>
                /\ UNCHANGED <<player, currentTime, indicatorVars, commands>>
    /\ UNCHANGED <<webVars, avVars, textVars>>
    /\ UNCHANGED <<now, advances, overlayVars, seekbarVars, isMuted, isPlaying,
                   duration>>

\* The setTimeout callback of the tap handled at time t.
TapTimeout(t) ==
    /\ t \in tapTimers
    /\ Due(t, DOUBLE_TAP_DELAY)
    /\ tapTimers' = tapTimers \ {t}
    /\ IF IsStillPending(lastTapRef, t)
       THEN \* handleSingleTap(); lastTapRef.current = null
            LET o == [open EXCEPT ![t].single = @ + 1]
                h == Closing(o, Null, tapTimers \ {t})
            IN  /\ showPlayPauseOverlay' = TRUE
                \* effect [showPlayPauseOverlay]: runs only when the value changed
                /\ overlayTimer' = IF showPlayPauseOverlay THEN overlayTimer ELSE now
                /\ player' = PlayerAfterToggle(player)
                /\ isPlaying' = player'.playing
                /\ lastTapRef' = Null
                /\ open' = h.open
                /\ tally' = h.tally
                /\ overlayTriggeredAt' = now
                /\ commands' = Append(commands, <<t, "toggle">>)
                /\ op' = "handleSingleTap"
       ELSE LET h == Closing(open, lastTapRef, tapTimers \ {t})
            IN  /\ open' = h.open
                /\ tally' = h.tally
                /\ op' = "tapTimeout"
                /\ UNCHANGED <<overlayVars, player, isPlaying, lastTapRef,
                               commands>>
    /\ wrote' = <<>>
    /\ UNCHANGED <<webVars, avVars, textVars>>
    /\ UNCHANGED <<timeVars, indicatorVars, seekbarVars, firstGap, tapX,
                   isMuted, currentTime, duration>>

\* ------------------------------------------------------ auto-hide timers
\* The overlay's timeout callback: setShowPlayPauseOverlay(false).
OverlayAfterTimeout_shown(shown) == shown
OverlayAfterTimeout(shown) == FALSE

\* Callback of the timeout set by the effect on showPlayPauseOverlay.
OverlayTimeout ==
    /\ overlayTimer # Null
    /\ Due(overlayTimer, PLAY_PAUSE_OVERLAY_DURATION)
    /\ showPlayPauseOverlay' = OverlayAfterTimeout(showPlayPauseOverlay)
    /\ overlayTimer' = Null
    /\ overlayTriggeredAt' = Null
    /\ op' = "overlayTimeout"
    /\ wrote' = <<>>
    /\ UNCHANGED <<webVars, avVars, textVars>>
    /\ UNCHANGED <<timeVars, tapVars, indicatorVars, seekbarVars, histVars,
                   player, isMuted, isPlaying, currentTime, duration>>

\* The seek indicator's timeout callback: setSeekDirection(null).
DirectionAfterTimeout_kept(direction) == direction
DirectionAfterTimeout(direction) == "null"

\* Callback of the timeout set by the effect on showSeekIndicator.
SeekIndicatorTimeout ==
    /\ seekIndicatorTimer # Null
    /\ Due(seekIndicatorTimer, SEEK_INDICATOR_DURATION)
    /\ showSeekIndicator' = FALSE
    /\ seekDirection' = DirectionAfterTimeout(seekDirection)
    /\ seekIndicatorTimer' = Null
    /\ indicatorTriggeredAt' = Null
    /\ op' = "seekIndicatorTimeout"
    /\ wrote' = <<>>
    /\ UNCHANGED <<webVars, avVars, textVars>>
    /\ UNCHANGED <<timeVars, tapVars, overlayVars, seekbarVars, histVars,
                   player, isMuted, isPlaying, currentTime, duration>>

\* ------------------------------------------------------------ the player
\* The stream's metadata arrives: the player reports its duration.
PlayerLoaded ==
    /\ player.duration \in UnknownDurations
    /\ player' = [player EXCEPT !.duration = Num(MaxDuration)]
    /\ op' = "playerLoaded"
    /\ wrote' = <<>>
    /\ UNCHANGED <<webVars, avVars, textVars>>
    /\ UNCHANGED <<timeVars, tapVars, overlayVars, indicatorVars, seekbarVars,
                   histVars, isMuted, isPlaying, currentTime, duration>>

\* Playback advances the position, up to the end of the stream.
PlayerProgress ==
    /\ player.playing
    /\ Positive(player.duration)
    /\ ~IsNaN(player.currentTime)
    /\ RLt(player.currentTime, player.duration)
    /\ player' = [player EXCEPT !.currentTime =
                      MathMin(JsAdd(@, Num(PlayStep)), player.duration)]
    /\ op' = "playerProgress"
    /\ wrote' = <<>>
    /\ UNCHANGED <<webVars, avVars, textVars>>
    /\ UNCHANGED <<timeVars, tapVars, overlayVars, indicatorVars, seekbarVars,
                   histVars, isMuted, isPlaying, currentTime, duration>>

\* Taps on the video area, the passage of time and the timeouts, on a stream
\* whose metadata may arrive at any moment.
Next ==
    \/ \E d \in TimeSteps : Advance(d)
    \/ \E x \in TapXs : handleVideoTap(x)
    \/ \E t \in tapTimers : TapTimeout(t)
    \/ OverlayTimeout
    \/ SeekIndicatorTimeout
    \/ PlayerLoaded

Spec == Init /\ [][Next]_vars

\* ------------------------------------------------------------- the seekbar
\* What seekbarTrackRef.current.measure reports: the track fills the seekbar
\* container inside its horizontal padding.
TrackGeometry == [trackWidth |-> seekbarWidth, pageX |-> seekbarPadding]

\* pageX values of touches on the seekbar: left of the track, the middle of the
\* screen, right of the track.
TouchXs == {0, ScreenWidth \div 2, ScreenWidth}

\* Math.max(0, Math.min(1, touchX / trackWidth)) with touchX = pageX - g.pageX.
ProgressAt_unclamped(pageX, g) == JsDiv(JsSub(Num(pageX), g.pageX), g.trackWidth)
ProgressAt(pageX, g) ==
    MathMax(Zero, MathMin(One, JsDiv(JsSub(Num(pageX), g.pageX), g.trackWidth)))

\* The interval callback acts only if (player && !isDragging).
PollActive_always(dragging) == TRUE
PollActive(dragging) == ~dragging

\* The state the pan responder's handlers see: PanResponder.create is called
\* once, on the first render, inside useRef, so its closures keep that render's
\* duration and seekbarValue (the useState defaults).
PanClosure == [duration |-> Zero, seekbarValue |-> Zero]

\* The poll: progress = time / dur.
PollProgress_zero(time, dur) == Zero
PollProgress(time, dur) == JsDiv(time, dur)

\* The setInterval callback of the position poll.
Poll ==
    /\ IF PollActive(isDragging)
       THEN LET time == OrZero(player.currentTime)
                dur == OrZero(player.duration)
                progress == PollProgress(time, dur)
            IN  /\ currentTime' = time
                /\ duration' = dur
                /\ isPlaying' = player.playing
                /\ IF Positive(dur)
                   THEN /\ seekbarValue' = progress
                        /\ seekbarPosition' = JsMul(progress, seekbarWidth)
                   ELSE UNCHANGED <<seekbarValue, seekbarPosition>>
       ELSE UNCHANGED <<currentTime, duration, isPlaying, seekbarValue,
                        seekbarPosition>>
    /\ op' = "poll"
    /\ wrote' = <<>>
    /\ UNCHANGED <<webVars, avVars, textVars>>
    /\ UNCHANGED <<timeVars, tapVars, overlayVars, indicatorVars, histVars,
                   player, isMuted, isDragging, touch>>

\* onPanResponderGrant with evt.nativeEvent.pageX = pageX, measure reporting g.
PanGrantOn(pageX, g) ==
    /\ ~isDragging
    /\ isDragging' = TRUE
    /\ LET newProgress == ProgressAt(pageX, g)
       IN  /\ seekbarValue' = newProgress
           /\ seekbarPosition' = JsMul(newProgress, g.trackWidth)
    /\ touch' = <<pageX, g>>
    /\ op' = "panGrant"
    /\ wrote' = <<>>
    /\ UNCHANGED <<webVars, avVars, textVars>>
    /\ UNCHANGED <<timeVars, tapVars, overlayVars, indicatorVars, histVars,
                   player, isMuted, isPlaying, currentTime, duration>>

PanGrant(pageX) == PanGrantOn(pageX, TrackGeometry)

\* onPanResponderMove with evt.nativeEvent.pageX = pageX, measure reporting g.
PanMoveOn(pageX, g) ==
    /\ isDragging
    /\ LET newProgress == ProgressAt(pageX, g)
       IN  /\ seekbarValue' = newProgress
           /\ seekbarPosition' = JsMul(newProgress, g.trackWidth)
    /\ touch' = <<pageX, g>>
    /\ op' = "panMove"
    /\ wrote' = <<>>
    /\ UNCHANGED <<webVars, avVars, textVars>>
    /\ UNCHANGED <<timeVars, tapVars, overlayVars, indicatorVars, histVars,
                   player, isMuted, isPlaying, currentTime, duration, isDragging>>

PanMove(pageX) == PanMoveOn(pageX, TrackGeometry)

\* onPanResponderRelease.
PanRelease ==
    /\ isDragging
    /\ IF Positive(PanClosure.duration)
       THEN LET newTime == JsMul(PanClosure.seekbarValue, PanClosure.duration)
            IN  /\ player' = [player EXCEPT !.currentTime = newTime]
                /\ currentTime' = newTime
                /\ wrote' = <<newTime>>
       ELSE /\ wrote' = <<>>
            /\ UNCHANGED <<player, currentTime>>
    /\ isDragging' = FALSE
    /\ op' = "panRelease"
    /\ UNCHANGED <<webVars, avVars, textVars>>
    /\ UNCHANGED <<timeVars, tapVars, overlayVars, indicatorVars, histVars,
                   isMuted, isPlaying, duration, seekbarValue, seekbarPosition,
                   touch>>

\* handleSeekbarPress: newTime = newProgress * duration.
PressTarget_end(newProgress, dur) == dur
PressTarget(newProgress, dur) == JsMul(newProgress, dur)

\* handleSeekbarPress with event.nativeEvent.pageX = pageX, measure reporting
\* g: a touch of its own, not part of a drag.
handleSeekbarPressOn(pageX, g) ==
    /\ ~isDragging
    /\ LET newProgress == ProgressAt(pageX, g)
           newTime == PressTarget(newProgress, duration)
       IN  /\ seekbarValue' = newProgress
           /\ seekbarPosition' = JsMul(newProgress, g.trackWidth)
           /\ IF Positive(duration)
              THEN /\ player' = [player EXCEPT !.currentTime = newTime]
                   /\ currentTime' = newTime
                   /\ wrote' = <<newTime>>
              ELSE /\ wrote' = <<>>
                   /\ UNCHANGED <<player, currentTime>>
    /\ touch' = <<pageX, g>>
    /\ op' = "handleSeekbarPress"
    /\ UNCHANGED <<webVars, avVars, textVars>>
    /\ UNCHANGED <<timeVars, tapVars, overlayVars, indicatorVars, histVars,
                   isMuted, isPlaying, duration, isDragging>>

handleSeekbarPress(pageX) == handleSeekbarPressOn(pageX, TrackGeometry)

\* togglePlayPause(), as called by handleSingleTap and by the overlay's button.
togglePlayPause ==
    /\ player' = PlayerAfterToggle(player)
    /\ isPlaying' = player'.playing
    /\ op' = "togglePlayPause"
    /\ wrote' = <<>>
    /\ UNCHANGED <<webVars, avVars, textVars>>
    /\ UNCHANGED <<timeVars, tapVars, overlayVars, indicatorVars, seekbarVars,
                   histVars, isMuted, currentTime, duration>>

\* toggleMute(), followed by the effect on [player, isMuted]: player.muted = isMuted.
toggleMute ==
    /\ LET newMutedState == MutedAfterToggle(isMuted)
       IN  /\ player' = [player EXCEPT !.muted = newMutedState]
           /\ isMuted' = newMutedState
    /\ op' = "toggleMute"
    /\ wrote' = <<>>
    /\ UNCHANGED <<webVars, avVars, textVars>>
    /\ UNCHANGED <<timeVars, tapVars, overlayVars, indicatorVars, seekbarVars,
                   histVars, isPlaying, currentTime, duration>>

\* Playback reaches the end of the stream (player.loop = false): the player
\* stops playing by itself.
PlayerEnded ==
    /\ player.playing
    /\ Positive(player.duration)
    /\ player.currentTime = player.duration
    /\ player' = [player EXCEPT !.playing = FALSE]
    /\ op' = "playerEnded"
    /\ wrote' = <<>>
    /\ UNCHANGED <<webVars, avVars, textVars>>
    /\ UNCHANGED <<timeVars, tapVars, overlayVars, indicatorVars, seekbarVars,
                   histVars, isMuted, isPlaying, currentTime, duration>>

\* The position poll, the seekbar's touches and the player, with the clock and
\* the video area left alone.
NextSeekbar ==
    \/ Poll
    \/ \E x \in TouchXs : PanGrant(x)
    \/ \E x \in TouchXs : PanMove(x)
    \/ PanRelease
    \/ \E x \in TouchXs : handleSeekbarPress(x)
    \/ PlayerLoaded
    \/ PlayerProgress
    \/ PlayerEnded
    \/ togglePlayPause
    \/ toggleMute

SpecSeekbar == Init /\ [][NextSeekbar]_vars

\* ------------------------------------------- position-to-fraction mapping
\* Track widths (px) that measure may report: none, a few px, the laid-out one.
TrackWidths == {Zero, Num(4), seekbarWidth}
Geometries == {[trackWidth |-> w, pageX |-> seekbarPadding] : w \in TrackWidths}
\* pageX values of touches: left of the track, on its first px, on its edge and
\* beyond.
PressXs == {0, 16, 17, 18, 20, ScreenWidth}

\* The handlers that map a touch position to a fraction.
TouchOps == {"panGrant", "panMove", "handleSeekbarPress"}

\* The seekbar's touches at any of the positions, with measure reporting any of
\* the geometries.
NextFraction ==
    \/ \E x \in PressXs, g \in Geometries : PanGrantOn(x, g)
    \/ \E x \in PressXs, g \in Geometries : PanMoveOn(x, g)
    \/ PanRelease
    \/ \E x \in PressXs, g \in Geometries : handleSeekbarPressOn(x, g)
    \/ Poll
    \/ PlayerLoaded
    \/ PlayerProgress

SpecFraction == Init /\ [][NextFraction]_vars

\* ------------------------------------------------------ the WebView screen
\* Math.floor of a number.
MathFloor_same(a) == a
MathFloor(a) == IF a[2] = 0 THEN a ELSE Num(a[1] \div a[2])

\* scheduleNotification: delay = Math.max(1, Math.floor(Number(delaySeconds))).
NotificationDelay_min(delaySeconds) == One
NotificationDelay(delaySeconds) == MathMax(One, MathFloor(delaySeconds))

\* The listener: data?.screen === 'VideoPlayer'.
ShouldNavigate_any(screen) == TRUE
ShouldNavigate(screen) == screen = "VideoPlayer"

\* data.screen of notifications that do not come from this screen: another
\* screen's name, or no data at all.
ForeignScreens == {"Settings", "none"}

\* scheduleNotification(title, body, delaySeconds) up to its await: the request
\* is passed to Notifications.scheduleNotificationAsync.
scheduleNotification(title, delaySeconds) ==
    /\ requests' = Append(requests,
                          [delaySeconds |-> delaySeconds,  \* history: the argument
                           title |-> title,
                           screen |-> "VideoPlayer",
                           type |-> "timeInterval",
                           seconds |-> NotificationDelay(delaySeconds),
                           repeats |-> FALSE])
    /\ inFlight' = inFlight \cup {Len(requests) + 1}

\* Both load handlers: setLoading(false).
LoadingAfterLoad_kept(flag) == flag
LoadingAfterLoad(flag) == FALSE

\* The WebView's onLoadEnd.
handleLoadEnd ==
    /\ webMounted
    /\ Len(requests) < MaxRequests
    /\ loading' = LoadingAfterLoad(loading)
    /\ scheduleNotification("WebView Loaded!", Num(2))
    /\ webOp' = "handleLoadEnd"
    /\ UNCHANGED <<webMounted, snackbarVisible, snackbarMessage, alert, route,
                   accepted, responses, navigations, lastResponse>>
    /\ UNCHANGED <<videoVars, avVars, textVars>>

\* The WebView's onError.
handleWebViewError ==
    /\ webMounted
    /\ loading' = LoadingAfterLoad(loading)
    /\ alert' = "Failed to load the website"
    /\ webOp' = "handleWebViewError"
    /\ UNCHANGED <<webMounted, snackbarVisible, snackbarMessage, route, requests,
                   inFlight, accepted, responses, navigations, lastResponse>>
    /\ UNCHANGED <<videoVars, avVars, textVars>>

\* The "Notification 1" button.
handleNotification1 ==
    /\ webMounted
    /\ route = "WebView"
    /\ Len(requests) < MaxRequests
    /\ scheduleNotification("Hello from WebView!", Num(3))
    /\ webOp' = "handleNotification1"
    /\ UNCHANGED <<webMounted, loading, snackbarVisible, snackbarMessage, alert,
                   route, accepted, responses, navigations, lastResponse>>
    /\ UNCHANGED <<videoVars, avVars, textVars>>

\* The "Notification 2" button.
handleNotification2 ==
    /\ webMounted
    /\ route = "WebView"
    /\ Len(requests) < MaxRequests
    /\ scheduleNotification("Second Notification", Num(4))
    /\ webOp' = "handleNotification2"
    /\ UNCHANGED <<webMounted, loading, snackbarVisible, snackbarMessage, alert,
                   route, accepted, responses, navigations, lastResponse>>
    /\ UNCHANGED <<videoVars, avVars, textVars>>

\* The delay the snackbar message names: `... in ${delay} seconds.`
SnackbarDelay_one(request) == One
SnackbarDelay(request) == request.seconds

\* scheduleNotification after its await, the scheduler having accepted request i.
ScheduleResolved(i) ==
    /\ i \in inFlight
    /\ inFlight' = inFlight \ {i}
    /\ accepted' = accepted \cup {i}
    /\ snackbarMessage' = SnackbarDelay(requests[i])
    /\ snackbarVisible' = TRUE
    /\ webOp' = "scheduleResolved"
    /\ UNCHANGED <<webMounted, loading, alert, route, requests, responses,
                   navigations, lastResponse>>
    /\ UNCHANGED <<videoVars, avVars, textVars>>

\* scheduleNotification's catch, the scheduler having rejected request i.
ScheduleRejected(i) ==
    /\ i \in inFlight
    /\ inFlight' = inFlight \ {i}
    /\ alert' = "Failed to schedule notification"
    /\ webOp' = "scheduleRejected"
    /\ UNCHANGED <<webMounted, loading, snackbarVisible, snackbarMessage, route,
                   requests, accepted, responses, navigations, lastResponse>>
    /\ UNCHANGED <<videoVars, avVars, textVars>>

\* The user taps a notification whose data.screen is `screen`; the listener, if
\* still subscribed, receives the response.
NotificationResponse(screen) ==
    /\ responses < MaxResponses
    /\ screen \in {requests[i].screen : i \in accepted} \cup ForeignScreens
    /\ responses' = responses + 1
    /\ lastResponse' = screen
    /\ IF webMounted /\ ShouldNavigate(screen)
       THEN /\ navigations' = navigations + 1
            /\ route' = "VideoPlayer"
       ELSE UNCHANGED <<navigations, route>>
    /\ webOp' = "notificationResponse"
    /\ UNCHANGED <<webMounted, loading, snackbarVisible, snackbarMessage, alert,
                   requests, inFlight, accepted>>
    /\ UNCHANGED <<videoVars, avVars, textVars>>

\* The "Go to Video Player" button.
GoToVideoPlayer ==
    /\ webMounted
    /\ route = "WebView"
    /\ route' = "VideoPlayer"
    /\ webOp' = "goToVideoPlayer"
    /\ UNCHANGED <<webMounted, loading, snackbarVisible, snackbarMessage, alert,
                   requests, inFlight, accepted, responses, navigations,
                   lastResponse>>
    /\ UNCHANGED <<videoVars, avVars, textVars>>

\* The video player's back button: navigation.goBack().
GoBack ==
    /\ webMounted
    /\ route = "VideoPlayer"
    /\ route' = "WebView"
    /\ webOp' = "goBack"
    /\ UNCHANGED <<webMounted, loading, snackbarVisible, snackbarMessage, alert,
                   requests, inFlight, accepted, responses, navigations,
                   lastResponse>>
    /\ UNCHANGED <<videoVars, avVars, textVars>>

\* The WebView screen unmounts: the effect's cleanup removes the listener.
WebViewUnmount ==
    /\ webMounted
    /\ webMounted' = FALSE
    /\ webOp' = "unmount"
    /\ UNCHANGED <<loading, snackbarVisible, snackbarMessage, alert, route,
                   requests, inFlight, accepted, responses, navigations,
                   lastResponse>>
    /\ UNCHANGED <<videoVars, avVars, textVars>>

NextWebView ==
    \/ handleLoadEnd
    \/ handleWebViewError
    \/ handleNotification1
    \/ handleNotification2
    \/ \E i \in inFlight : ScheduleResolved(i)
    \/ \E i \in inFlight : ScheduleRejected(i)
    \/ \E screen \in {"VideoPlayer"} \cup ForeignScreens : NotificationResponse(screen)
    \/ GoToVideoPlayer
    \/ GoBack
    \/ WebViewUnmount

\* The app starts on the WebView screen, the video player not yet opened.
InitWebView == Init /\ player.duration = Zero

SpecWebView == InitWebView /\ [][NextWebView]_vars

\* ------------------------------------------------- the notification delay
\* Values of delaySeconds: negative, zero, fractions and whole numbers.
DelayInputs == {Num(-1), Zero, Rat(1, 2), One, Rat(3, 2), Num(2), Rat(7, 2), Num(5)}

\* A call scheduleNotification(title, body, delaySeconds).
ScheduleWithDelay(delaySeconds) ==
    /\ webMounted
    /\ Len(requests) < MaxRequests
    /\ scheduleNotification("title", delaySeconds)
    /\ webOp' = "scheduleNotification"
    /\ UNCHANGED <<webMounted, loading, snackbarVisible, snackbarMessage, alert,
                   route, accepted, responses, navigations, lastResponse>>
    /\ UNCHANGED <<videoVars, avVars, textVars>>

NextDelay ==
    \/ \E d \in DelayInputs : ScheduleWithDelay(d)
    \/ \E i \in inFlight : ScheduleResolved(i)
    \/ \E i \in inFlight : ScheduleRejected(i)

SpecDelay == InitWebView /\ [][NextDelay]_vars

\* ------------------------------------------- the expo-av player screen
\* The stream's duration and the amount playback advances between events (ms).
AvDurationMillis == MaxDuration * 1000
AvPlayStepMillis == PlayStep * 1000

\* seekForward: (status.positionMillis || 0) + 10000.
AvSeekForwardPos(st) == JsAdd(OrZero(st.positionMillis), Num(AV_SEEK_MILLIS))

\* seekBackward: Math.max(0, (status.positionMillis || 0) - 10000).
AvSeekBackwardPos(st) ==
    MathMax(Zero, JsSub(OrZero(st.positionMillis), Num(AV_SEEK_MILLIS)))

\* Where the playback is after setPositionAsync(pos): within the stream.
AvPositionAfterSeek(pos) == MathMax(Zero, MathMin(pos, Num(AvDurationMillis)))

\* The stream is loaded.
AvLoaded ==
    /\ ~avPlayer.isLoaded
    /\ avPlayer' = [avPlayer EXCEPT !.isLoaded = TRUE]
    /\ avOp' = "loaded"
    /\ avRequested' = <<>>
    /\ UNCHANGED status
    /\ UNCHANGED <<videoVars, webVars, textVars>>

\* Playback advances, up to the end of the stream.
AvProgress ==
    /\ avPlayer.isLoaded
    /\ avPlayer.isPlaying
    /\ RLt(avPlayer.positionMillis, Num(AvDurationMillis))
    /\ avPlayer' = [avPlayer EXCEPT !.positionMillis =
                        MathMin(JsAdd(@, Num(AvPlayStepMillis)), Num(AvDurationMillis))]
    /\ avOp' = "progress"
    /\ avRequested' = <<>>
    /\ UNCHANGED status
    /\ UNCHANGED <<videoVars, webVars, textVars>>

\* onPlaybackStatusUpdate={(status) => setStatus(() => status)}.
onPlaybackStatusUpdate ==
    /\ avPlayer.isLoaded
    /\ status' = [positionMillis |-> avPlayer.positionMillis,
                  durationMillis |-> Num(AvDurationMillis),
                  isPlaying |-> avPlayer.isPlaying]
    /\ status' # status
    /\ avOp' = "onPlaybackStatusUpdate"
    /\ avRequested' = <<>>
    /\ UNCHANGED avPlayer
    /\ UNCHANGED <<videoVars, webVars, textVars>>

\* togglePlayPause of the expo-av screen.
AvTogglePlayPause ==
    /\ avPlayer' = IF avPlayer.isLoaded
                   THEN [avPlayer EXCEPT !.isPlaying = ~status.isPlaying]
                   ELSE avPlayer
    /\ avOp' = "togglePlayPause"
    /\ avRequested' = <<>>
    /\ UNCHANGED status
    /\ UNCHANGED <<videoVars, webVars, textVars>>

\* seekForward of the expo-av screen.
AvSeekForward ==
    /\ LET newPosition == AvSeekForwardPos(status)
       IN  /\ avRequested' = <<newPosition>>
           /\ avPlayer' = IF avPlayer.isLoaded
                          THEN [avPlayer EXCEPT !.positionMillis =
                                    AvPositionAfterSeek(newPosition)]
                          ELSE avPlayer
    /\ avOp' = "seekForward"
    /\ UNCHANGED status
    /\ UNCHANGED <<videoVars, webVars, textVars>>

\* seekBackward of the expo-av screen.
AvSeekBackward ==
    /\ LET newPosition == AvSeekBackwardPos(status)
       IN  /\ avRequested' = <<newPosition>>
           /\ avPlayer' = IF avPlayer.isLoaded
                          THEN [avPlayer EXCEPT !.positionMillis =
                                    AvPositionAfterSeek(newPosition)]
                          ELSE avPlayer
    /\ avOp' = "seekBackward"
    /\ UNCHANGED status
    /\ UNCHANGED <<videoVars, webVars, textVars>>

NextAv ==
    \/ AvLoaded
    \/ AvProgress
    \/ onPlaybackStatusUpdate
    \/ AvTogglePlayPause
    \/ AvSeekForward
    \/ AvSeekBackward

SpecAv == Init /\ [][NextAv]_vars

\* ------------------------------------------------------------ time labels
\* Strings are sequences of one-character strings.
DigitChars == <<"0", "1", "2", "3", "4", "5", "6", "7", "8", "9">>

RECURSIVE NatToString(_)
NatToString(n) ==
    IF n < 10 THEN <<DigitChars[n + 1]>>
    ELSE NatToString(n \div 10) \o <<DigitChars[(n % 10) + 1]>>

\* Number.prototype.toString for a whole number, an infinity or NaN.
NumberToString(a) ==
    IF a = NaN THEN <<"N", "a", "N">>
    ELSE IF a[2] = 0
         THEN (IF a[1] < 0 THEN <<"-">> ELSE <<>>)
              \o <<"I", "n", "f", "i", "n", "i", "t", "y">>
         ELSE IF a[1] < 0 THEN <<"-">> \o NatToString(-a[1])
              ELSE NatToString(a[1])

\* str.padStart(targetLength, padString) with a one-character padString.
PadStart_none(str, targetLength, padString) == str
PadStart(str, targetLength, padString) ==
    IF Len(str) >= targetLength THEN str
    ELSE [i \in 1..(targetLength - Len(str)) |-> padString] \o str

\* a % b for a whole number, an infinity or NaN a and a whole b > 0: the
\* remainder takes the sign of a.
JsRem(a, b) ==
    IF a[2] = 0 THEN NaN
    ELSE IF a[1] >= 0 THEN Num(a[1] % b[1])
         ELSE Num(-((-a[1]) % b[1]))

\* !seconds.
IsFalsy(v) == v = Undefined \/ v = Zero \/ IsNaN(v)

formatTime(seconds) ==
    IF IsFalsy(seconds) \/ IsNaN(seconds) THEN <<"0", ":", "0", "0">>
    ELSE LET totalSeconds == MathFloor(seconds)
             minutes == MathFloor(JsDiv(totalSeconds, Num(60)))
             secs == JsRem(totalSeconds, Num(60))
         IN  NumberToString(minutes) \o <<":">>
             \o PadStart(NumberToString(secs), 2, "0")

\* The arguments formatTime is applied to: every half second up to
\* MaxSeconds, values around the hour, and values that are not a time.
FormatInputs ==
    {Rat(n, 2) : n \in 0..(2 * MaxSeconds)}
    \cup {Num(599), Num(600), Rat(7199, 2), Num(3600), Num(3661)}
    \cup {NaN, Undefined, Rat(1, 0), Num(-5)}

\* The render calls formatTime(seconds) for a time label.
formatTimeCall(seconds) ==
    /\ formatArg' = seconds
    /\ formatted' = formatTime(seconds)
    /\ UNCHANGED <<videoVars, webVars, avVars>>

NextFormat == \E seconds \in FormatInputs : formatTimeCall(seconds)

SpecFormat == InitWebView /\ [][NextFormat]_vars

\* ------------------------------------------------------ the mounted screen
\* Time passes up to the next instant at which a pending timeout becomes due,
\* however long the screen has been mounted.
AdvanceToDue ==
    /\ \E D \in DueTimes : D > now
    /\ LET next == CHOOSE D \in DueTimes :
                       D > now /\ \A E \in DueTimes : E > now => D <= E
       IN  /\ \A D \in DueTimes : next <= D + MaxLate
           /\ now' = next
    /\ tappedNow' = FALSE
    /\ UNCHANGED <<webVars, avVars, textVars>>
    /\ UNCHANGED <<advances, tapVars, overlayVars, indicatorVars, seekbarVars,
                   histVars, player, isMuted, isPlaying, currentTime, duration,
                   op, wrote>>

\* A tap on either half of the video.
HalfXs == {0, ScreenWidth}

\* The gaps between taps that are short enough for a double tap to follow.
ShortSteps == {d \in Steps : 2 * d < DOUBLE_TAP_DELAY}

\* Taps, a short gap after a tap, time running up to the next timeout, the
\* timeouts' callbacks, the overlay's button and the player.
NextLive ==
    \/ \E d \in ShortSteps : tappedNow /\ Advance(d)
    \/ AdvanceToDue
    \/ \E x \in HalfXs : handleVideoTap(x)
    \/ \E t \in tapTimers : TapTimeout(t)
    \/ OverlayTimeout
    \/ SeekIndicatorTimeout
    \/ PlayerLoaded
    \/ showPlayPauseOverlay /\ togglePlayPause

\* The screen stays mounted: time keeps passing while a timeout is pending, and
\* the event loop runs the callback of every timeout that is due.
SpecLive ==
    /\ InitWebView
    /\ [][NextLive]_vars
    /\ WF_vars(AdvanceToDue)
    /\ WF_vars(\E t \in tapTimers : TapTimeout(t))
    /\ WF_vars(OverlayTimeout)
    /\ WF_vars(SeekIndicatorTimeout)

\* ===================================================================== claims

\* Every timeout callback of handleVideoTap has run.
TapsSettled == tapTimers = {}

\* v lies in [0, d]; where d is no usable duration (NaN or negative), only
\* that v is a number >= 0.
InRange(v, d) ==
    /\ ~IsNaN(v)
    /\ RLe(Zero, v)
    /\ (~IsNaN(d) /\ RLe(Zero, d)) => RLe(v, d)

\* C1: a tap that arrives less than DOUBLE_TAP_DELAY ms after a pending tap
\* makes the two a double tap, handleDoubleTap runs once for the pair, and no
\* tap of a double tap is ever also given to handleSingleTap, whenever the
\* first tap's timeout callback runs.
C1_DoubleConsumesBothTaps ==
    /\ tally.both = 0
    /\ tally.twice = 0
    /\ tally.missed = 0
    /\ \A t \in DOMAIN open :
          /\ open[t].double <= 1
          /\ open[t].double = 1 => open[t].single = 0
          /\ (open[t].sincePending # Null /\ open[t].sincePending < DOUBLE_TAP_DELAY)
                => open[t].double = 1

\* C1 witness: a double tap happened and the first tap's timeout callback has
\* run afterwards, finding nothing to do.
C1_CallbackAfterDoubleTap ==
    /\ op = "tapTimeout"
    /\ tally.double = 2
    /\ tally.single = 0
    /\ TapsSettled

\* C2 (as claimed): once every timeout callback has run, each tap has exactly
\* one classification: Single, or part of exactly one Double.
C2_EveryTapClassifiedOnce ==
    TapsSettled =>
        /\ tally.none = 0
        /\ tally.both = 0
        /\ tally.twice = 0
        /\ tally.single + tally.double = tally.taps

\* C3 (as claimed): of two taps, a gap of DOUBLE_TAP_DELAY - 1 ms gives one
\* Double and no Single, a gap of DOUBLE_TAP_DELAY + 1 ms gives two Singles and
\* no Double, and a gap of exactly DOUBLE_TAP_DELAY ms gives no Double.
C3_WindowBoundaries ==
    (tally.taps = 2 /\ TapsSettled) =>
        /\ firstGap[2] = DOUBLE_TAP_DELAY - 1
              => (tally.double = 2 /\ tally.single = 0)
        /\ firstGap[2] = DOUBLE_TAP_DELAY + 1
              => (tally.single = 2 /\ tally.double = 0)
        /\ firstGap[2] = DOUBLE_TAP_DELAY => tally.double = 0

\* C4 (as claimed): the position a relative seek writes to player.currentTime
\* lies in [0, duration].
C4_RelativeSeekInRange ==
    op = "handleDoubleTap" => InRange(wrote[1], player.duration)

\* A step in which handleVideoTap took a tap for the second of a double tap.
DoubleTapStep == op' = "handleDoubleTap" /\ tally'.taps = tally.taps + 1

\* C5 (as claimed): while the player's duration is 0 or unknown, a relative
\* seek writes the position the player already has.
C5_SeekWithoutDurationIsNoOp ==
    [][(DoubleTapStep /\ ~Positive(player.duration))
          => (wrote' = <<player.currentTime>>
              /\ player'.currentTime = player.currentTime)]_vars

\* C6 (as claimed): the play/pause overlay is hidden no earlier than
\* PLAY_PAUSE_OVERLAY_DURATION ms after the latest single tap that triggered it,
\* for a latest trigger that came before the running countdown had elapsed.
C6_OverlayCountdownRestarts ==
    [][(/\ showPlayPauseOverlay /\ ~showPlayPauseOverlay'
        /\ overlayTriggeredAt < overlayTimer + PLAY_PAUSE_OVERLAY_DURATION)
          => now >= overlayTriggeredAt + PLAY_PAUSE_OVERLAY_DURATION]_vars

\* C7 (as claimed): the seek indicator is hidden no earlier than
\* SEEK_INDICATOR_DURATION ms after the latest double tap, for a latest double
\* tap that came before the running countdown had elapsed.
C7_IndicatorCountdownRestarts ==
    [][(/\ showSeekIndicator /\ ~showSeekIndicator'
        /\ indicatorTriggeredAt < seekIndicatorTimer + SEEK_INDICATOR_DURATION)
          => now >= indicatorTriggeredAt + SEEK_INDICATOR_DURATION]_vars

\* C8 (as claimed): each debounced signal has at most one delayed callback
\* outstanding; for the tap timeouts, counting only those whose delay has not
\* yet elapsed.
C8_OnePendingCallbackPerSignal ==
    /\ Cardinality({t \in tapTimers : ~Due(t, DOUBLE_TAP_DELAY)}) <= 1
    /\ Cardinality({overlayTimer} \ {Null}) <= 1
    /\ Cardinality({seekIndicatorTimer} \ {Null}) <= 1

\* C9: while isDragging is true, a run of the position poll changes none of
\* seekbarValue, seekbarPosition and currentTime.
C9_PollSuppressedWhileDragging ==
    [][(isDragging /\ op' = "poll")
          => UNCHANGED <<seekbarValue, seekbarPosition, currentTime>>]_vars

\* C9 witness: the poll has run during a drag while the player's position
\* differed from what the screen shows.
C9_PollDuringDrag ==
    /\ isDragging
    /\ op = "poll"
    /\ Positive(player.duration)
    /\ currentTime # player.currentTime
    /\ seekbarValue # JsDiv(player.currentTime, player.duration)

\* C10 (as claimed): releasing a drag while the duration state is > 0 writes
\* seekbarValue * duration, with their values at release time, to
\* player.currentTime and to the currentTime state.
C10_ReleaseSeeksToScrubbedPosition ==
    [][(op' = "panRelease" /\ Positive(duration))
          => LET newTime == JsMul(seekbarValue, duration)
             IN  /\ wrote' = <<newTime>>
                 /\ player'.currentTime = newTime
                 /\ currentTime' = newTime]_vars

\* C11: for a track of positive width, the fraction a press or drag position
\* maps to lies in [0, 1], and of two successive touches measured against the
\* same geometry the one further right maps to a fraction at least as large.
C11_FractionInRangeAndMonotonic ==
    [][(op' \in TouchOps /\ Positive(touch'[2].trackWidth))
          => /\ ~IsNaN(seekbarValue')
             /\ RLe(Zero, seekbarValue')
             /\ RLe(seekbarValue', One)
             /\ (op \in TouchOps /\ touch[2] = touch'[2])
                   => /\ touch[1] <= touch'[1] => RLe(seekbarValue, seekbarValue')
                      /\ touch[1] >= touch'[1] => RLe(seekbarValue', seekbarValue)]_vars

\* C11 witness: a drag moved to a position strictly inside a track mapped it to
\* a fraction strictly between 0 and 1.
C11_FractionInsideTrack ==
    /\ op = "panMove"
    /\ Positive(touch[2].trackWidth)
    /\ seekbarValue = Rat(1, 4)

\* C12 (as claimed): when measure reports a track width of 0, a touch produces
\* no seekbar value and no seek target.
C12_ZeroWidthFailsMapping ==
    [][(op' \in TouchOps /\ ~Positive(touch'[2].trackWidth))
          => UNCHANGED <<seekbarValue, seekbarPosition, player, currentTime>>]_vars

\* C13: a press on the track at fraction f while the duration state d is > 0
\* writes exactly f * d, a value in [0, d], to player.currentTime; while the
\* duration state is 0 the press leaves player.currentTime and currentTime as
\* they were.
C13_PressSeeksToFraction ==
    [][op' = "handleSeekbarPress"
          => LET f == ProgressAt(touch'[1], touch'[2])
                 target == JsMul(f, duration)
             IN  IF Positive(duration)
                 THEN /\ wrote' = <<target>>
                      /\ player'.currentTime = target
                      /\ RLe(Zero, target)
                      /\ RLe(target, duration)
                 ELSE duration = Zero
                         => /\ wrote' = <<>>
                            /\ player'.currentTime = player.currentTime
                            /\ currentTime' = currentTime]_vars

\* C13 witness: a press in the middle of the track of a loaded stream has
\* written half the duration.
C13_PressInTheMiddle ==
    /\ op = "handleSeekbarPress"
    /\ Positive(duration)
    /\ seekbarValue = Rat(1, 2)
    /\ wrote = <<JsMul(Rat(1, 2), duration)>>
    /\ player.currentTime = JsMul(Rat(1, 2), duration)

\* C14: a double tap whose second tap is at locationX = width/2 - 1 seeks
\* backward by SEEK_SECONDS and sets seekDirection to 'backward'; one at
\* width/2 or width/2 + 1 seeks forward by SEEK_SECONDS and sets it to
\* 'forward'; either way the seek indicator is shown.
C14_DirectionFromSecondTap ==
    [][DoubleTapStep
          => /\ showSeekIndicator'
             /\ tapX' \in {ScreenWidth \div 2 - 1, ScreenWidth \div 2,
                            ScreenWidth \div 2 + 1}
             /\ tapX' = ScreenWidth \div 2 - 1
                   => /\ seekDirection' = "backward"
                      /\ wrote' = <<MathMax(JsSub(player.currentTime,
                                                  Num(SEEK_SECONDS)), Zero)>>
             /\ tapX' >= ScreenWidth \div 2
                   => /\ seekDirection' = "forward"
                      /\ wrote' = <<MathMin(JsAdd(player.currentTime,
                                                  Num(SEEK_SECONDS)),
                                            player.duration)>>
             /\ player'.currentTime = wrote'[1]]_vars

\* C14 witness: a double tap ending exactly in the middle of the video has
\* moved a loaded stream forward, with the indicator showing 'forward'.
C14_DoubleTapInTheMiddle ==
    /\ op = "handleDoubleTap"
    /\ tapX = ScreenWidth \div 2
    /\ seekDirection = "forward"
    /\ showSeekIndicator
    /\ player.currentTime = Num(SEEK_SECONDS)

\* C15: the playback commands reach the player in the order of the taps they
\* came from: no command of an earlier tap is applied after a command of a
\* later tap.
C15_CommandsInTapOrder ==
    \A i, j \in DOMAIN commands : i < j => commands[i][1] < commands[j][1]

\* C15 witness: a seek from a double tap was followed by the deferred toggle of
\* a later single tap.
C15_SeekThenToggle ==
    /\ op = "handleSingleTap"
    /\ Len(commands) = 2
    /\ commands[1][2] = "seek"
    /\ commands[2][2] = "toggle"

SingleTapStep == op' = "handleSingleTap" /\ Len(commands') = Len(commands) + 1

\* C17: a tap classified as Single shows the play/pause overlay and toggles
\* playback once, pausing a playing player and playing a paused one; a double
\* tap neither toggles playback nor shows the overlay.
C17_SingleTogglesDoubleDoesNot ==
    [][/\ SingleTapStep
          => /\ showPlayPauseOverlay'
             /\ player'.playing = ~player.playing
             /\ isPlaying' = player'.playing
             /\ player'.currentTime = player.currentTime
       /\ DoubleTapStep
          => /\ player'.playing = player.playing
             /\ isPlaying' = isPlaying
             /\ showPlayPauseOverlay' = showPlayPauseOverlay]_vars

\* C17 witness: two single taps have paused the player and resumed it, the
\* overlay showing.
C17_PausedAndResumed ==
    /\ op = "handleSingleTap"
    /\ Len(commands) = 2
    /\ commands[1][2] = "toggle"
    /\ commands[2][2] = "toggle"
    /\ player.playing
    /\ isPlaying
    /\ showPlayPauseOverlay

\* The delay (s) of the latest request passed to the scheduler.
LatestDelay == requests'[Len(requests')].seconds

\* C18: pressing "Notification 1" asks for one notification 3 s later,
\* pressing "Notification 2" for one 4 s later, each load-end for one 2 s
\* later, and every delay asked for lies within 2..5 s.
C18_NotificationDelays ==
    [][webOp' \in {"handleNotification1", "handleNotification2", "handleLoadEnd"}
          => /\ requests' = Append(requests, requests'[Len(requests')])
             /\ webOp' = "handleNotification1" => LatestDelay = Num(3)
             /\ webOp' = "handleNotification2" => LatestDelay = Num(4)
             /\ webOp' = "handleLoadEnd" => LatestDelay = Num(2)
             /\ RLe(Num(2), LatestDelay) /\ RLe(LatestDelay, Num(5))]_vars

\* C18 witness: the load-end and both buttons have each asked for a
\* notification.
C18_AllThreeRequested ==
    /\ Len(requests) = 3
    /\ {requests[i].seconds : i \in DOMAIN requests} = {Num(2), Num(3), Num(4)}

\* C19: every notification the app asks for carries data.screen =
\* 'VideoPlayer'; a notification response received while the listener is
\* subscribed navigates to VideoPlayer exactly if its data.screen is
\* 'VideoPlayer'; unmounting removes the listener, after which a response
\* causes no navigation.
C19_ResponseNavigation ==
    [][/\ \A i \in DOMAIN requests' : requests'[i].screen = "VideoPlayer"
       /\ webOp' = "notificationResponse"
          => IF webMounted /\ lastResponse' = "VideoPlayer"
             THEN navigations' = navigations + 1 /\ route' = "VideoPlayer"
             ELSE navigations' = navigations /\ route' = route
       /\ webOp' = "unmount" => ~webMounted'
       /\ ~webMounted => ~webMounted']_vars

\* C19 witness: one of the app's own notifications was tapped while the
\* listener was subscribed, which opened the video player.
C19_OwnResponseNavigates ==
    /\ webOp = "notificationResponse"
    /\ webMounted
    /\ accepted # {}
    /\ lastResponse = "VideoPlayer"
    /\ navigations = 1
    /\ route = "VideoPlayer"

\* C20 (as claimed): in the expo-av screen every position a relative seek
\* passes to setPositionAsync lies in [0, duration of the stream].
C20_AvSeekWithinDuration ==
    \A i \in DOMAIN avRequested :
        /\ ~IsNaN(avRequested[i])
        /\ RLe(Zero, avRequested[i])
        /\ RLe(avRequested[i], Num(AvDurationMillis))

\* C21: when the scheduler rejects a request, the Alert 'Failed to schedule
\* notification' is shown and the snackbar's message and visibility stay as
\* they were; when it accepts one, the snackbar becomes visible with a message
\* naming the delay of that request, and no Alert is shown.
C21_ScheduleOutcomes ==
    [][/\ webOp' = "scheduleRejected"
          => /\ alert' = "Failed to schedule notification"
             /\ UNCHANGED <<snackbarVisible, snackbarMessage>>
       /\ webOp' = "scheduleResolved"
          => /\ snackbarVisible'
             /\ \E i \in inFlight \ inFlight' :
                   snackbarMessage' = requests[i].seconds
             /\ alert' = alert]_vars

\* C21 witness: a request was rejected after another had been accepted; the
\* snackbar still names the accepted one's delay.
C21_RejectedAfterAccepted ==
    /\ webOp = "scheduleRejected"
    /\ alert = "Failed to schedule notification"
    /\ snackbarVisible
    /\ \E i \in accepted : snackbarMessage = requests[i].seconds

\* C22: for every (finite) number delaySeconds, the delay passed to the
\* scheduler is max(1, floor(delaySeconds)): a whole number >= 1, equal to
\* delaySeconds when that is a whole number >= 1; the trigger is a time
\* interval that does not repeat.
C22_DelayIsFlooredAndAtLeastOne ==
    \A i \in DOMAIN requests :
        LET d == requests[i].delaySeconds
            delay == requests[i].seconds
        IN  /\ delay[2] = 1
            /\ delay[1] >= 1
            /\ IF RLt(d, One) THEN delay = One
               ELSE RLe(delay, d) /\ RLt(d, JsAdd(delay, One))
            /\ (d[2] = 1 /\ d[1] >= 1) => delay = d
            /\ requests[i].type = "timeInterval"
            /\ requests[i].repeats = FALSE

\* C22 witness: delays of -1, 1/2 and 7/2 seconds were asked for and 1, 1 and 3
\* seconds passed on.
C22_FractionsAndNegatives ==
    /\ Len(requests) = 3
    /\ {<<requests[i].delaySeconds, requests[i].seconds>> : i \in DOMAIN requests}
          = {<<Num(-1), One>>, <<Rat(1, 2), One>>, <<Rat(7, 2), Num(3)>>}

\* C23: every toggleMute call flips isMuted and leaves player.muted equal to
\* it (so two calls in a row restore the muted state), without changing the
\* playing state or the position; player.muted equals isMuted throughout.
C23_MuteInAgreement ==
    [][/\ player'.muted = isMuted'
       /\ op' = "toggleMute"
          => /\ isMuted' = ~isMuted
             /\ player'.muted = ~player.muted
             /\ player'.playing = player.playing
             /\ player'.currentTime = player.currentTime
             /\ UNCHANGED <<isPlaying, currentTime>>
       /\ (op = "toggleMute" /\ op' = "toggleMute") => isMuted' = ~isMuted]_vars

\* C23 witness: toggleMute has muted a player that is playing in mid-stream.
C23_MutedWhilePlaying ==
    /\ op = "toggleMute"
    /\ isMuted
    /\ player.muted
    /\ player.playing
    /\ Positive(player.currentTime)

\* C24: togglePlayPause flips the player's own playing flag, whatever the
\* isPlaying state says, and leaves isPlaying equal to the new flag; a poll
\* taken while not dragging makes isPlaying equal to the player's flag again.
C24_PlayingStateFollowsPlayer ==
    [][/\ op' = "togglePlayPause"
          => /\ player'.playing = ~player.playing
             /\ isPlaying' = player'.playing
       /\ (op' = "poll" /\ ~isDragging)
          => /\ isPlaying' = player.playing
             /\ player'.playing = player.playing]_vars

\* C24 witness: the stream has ended by itself, and togglePlayPause, called
\* while isPlaying still said true, has started the player again.
C24_RestartedAfterEnd ==
    /\ op = "togglePlayPause"
    /\ Positive(player.duration)
    /\ player.currentTime = player.duration
    /\ currentTime # player.currentTime
    /\ player.playing
    /\ isPlaying

\* C27: a poll taken while not dragging copies the player's time, duration
\* and playing flag; with a duration above 0 it sets seekbarValue to
\* currentTime / duration and seekbarPosition to seekbarValue * seekbarWidth,
\* and with a duration of 0 it leaves seekbarValue and seekbarPosition alone.
C27_PollSetsSeekbar ==
    [][(op' = "poll" /\ ~isDragging)
       => /\ currentTime' = OrZero(player.currentTime)
          /\ duration' = OrZero(player.duration)
          /\ isPlaying' = player.playing
          /\ IF Positive(duration')
             THEN /\ seekbarValue' = JsDiv(currentTime', duration')
                  /\ seekbarPosition' = JsMul(seekbarValue', seekbarWidth)
             ELSE UNCHANGED <<seekbarValue, seekbarPosition>>]_vars

\* C27 witness: a poll has found the player one fifth into the stream.
C27_PolledAtOneFifth ==
    /\ op = "poll"
    /\ ~isDragging
    /\ Positive(duration)
    /\ seekbarValue = Rat(1, 5)
    /\ seekbarPosition = JsMul(Rat(1, 5), seekbarWidth)

\* C25: the seek indicator is shown exactly when seekDirection is 'forward'
\* or 'backward', in every state, and the callback of the indicator's timer
\* hides the indicator and clears the direction together.
C25_IndicatorAgreesWithDirection ==
    [][/\ showSeekIndicator <=> seekDirection \in {"forward", "backward"}
       /\ showSeekIndicator' <=> seekDirection' \in {"forward", "backward"}
       /\ (seekIndicatorTimer # Null /\ seekIndicatorTimer' = Null)
          => /\ now >= seekIndicatorTimer + SEEK_INDICATOR_DURATION
             /\ showSeekIndicator /\ ~showSeekIndicator'
             /\ seekDirection # "null" /\ seekDirection' = "null"]_vars

\* C25 witness: the indicator's timer has expired after a backward seek and
\* both the indicator and the direction are reset.
C25_ResetAfterBackwardSeek ==
    /\ op = "seekIndicatorTimeout"
    /\ now >= SEEK_INDICATOR_DURATION
    /\ IsLeftHalf(tapX)
    /\ seekIndicatorTimer = Null
    /\ ~showSeekIndicator
    /\ seekDirection = "null"

\* C26: while the screen stays mounted and due timers fire, a visible
\* play/pause overlay is eventually hidden again, and so is a visible seek
\* indicator, whatever taps and seeks happen in between.
C26_VisibleEventuallyHidden ==
    /\ showPlayPauseOverlay ~> ~showPlayPauseOverlay
    /\ showSeekIndicator ~> ~showSeekIndicator

\* C26 witness: after a seek and a toggle, with the overlay retriggered while
\* it was showing, the overlay's timeout has hidden it and the indicator is
\* hidden too.
C26_BothHiddenAgain ==
    /\ op = "overlayTimeout"
    /\ ~showPlayPauseOverlay
    /\ ~showSeekIndicator
    /\ \E i, j, k \in 1..Len(commands) :
          /\ commands[i][2] = "seek"
          /\ j < k
          /\ commands[j][2] = "toggle"
          /\ commands[k][2] = "toggle"
          /\ commands[k][1] < commands[j][1] + DOUBLE_TAP_DELAY
                              + PLAY_PAUSE_OVERLAY_DURATION

\* C28: the loading flag is true after mount, false after every load-end and
\* every load error, and never turns true again; a load error shows the
\* 'Failed to load the website' alert and requests no notification; every
\* load-end requests exactly one notification, with a delay of 2 seconds.
C28_LoadingFlagAndLoadHandlers ==
    [][/\ webOp = "mount" => loading
       /\ loading' => loading
       /\ webOp' = "handleWebViewError"
          => /\ ~loading'
             /\ alert' = "Failed to load the website"
             /\ UNCHANGED <<requests, inFlight>>
       /\ webOp' = "handleLoadEnd"
          => /\ ~loading'
             /\ alert' = alert
             /\ Len(requests') = Len(requests) + 1
             /\ SubSeq(requests', 1, Len(requests)) = requests
             /\ requests'[Len(requests')].delaySeconds = Num(2)
             /\ requests'[Len(requests')].seconds = Num(2)]_vars

\* C28 witness: after a load error, a second load-end has requested its own
\* notification and the loading flag is still false.
C28_TwoLoadEndsAfterError ==
    /\ webOp = "handleLoadEnd"
    /\ ~loading
    /\ alert = "Failed to load the website"
    /\ Len(requests) = 2
    /\ \A i \in 1..2 : requests[i].seconds = Num(2)

\* The whole number a string of decimal digits stands for.
RECURSIVE ParseNat(_)
ParseNat(str) ==
    IF str = <<>> THEN 0
    ELSE 10 * ParseNat(SubSeq(str, 1, Len(str) - 1))
         + (CHOOSE d \in 0..9 : DigitChars[d + 1] = str[Len(str)])

IsDigits(str) == \A i \in 1..Len(str) : \E d \in 1..10 : DigitChars[d] = str[i]

====
